---- MODULE Spec2Model ----
(***************************************************************************)
(* Smart Task Analyzer: the task repository (database.py), the request     *)
(* handlers create_task / delete_task / analyze_tasks / suggest_tasks, the  *)
(* dependency validator validate_tasks and the PriorityCalculator of       *)
(* main.py.                                                                *)
(*                                                                         *)
(* Conventions                                                             *)
(*  - A task id is a natural number: id n is the n-th uuid4 the server     *)
(*    generated.  Id 0 is an id that names no task of the list or of the   *)
(*    repository it is used with, unless stated otherwise.                 *)
(*  - A date is a day number; days_until_due = due_date - Today.           *)
(*  - Weights are held in tenths (0.4 is 4), so a weighted sum is held in  *)
(*    tenths of a point: a score s of the code is the integer 10 * s.      *)
(*    Binary floating point rounding (about 1e-14) is not modelled.        *)
(*  - title carries no behaviour in the modelled code and is left out.     *)
(***************************************************************************)
EXTENDS Integers, Sequences, FiniteSets, TLC

VARIABLES db, nextId, resp, valIn, valOut, calcIn, calcOut, pending

vars == <<db, nextId, resp, valIn, valOut, calcIn, calcOut, pending>>

(***************************************************************************)
(* Bounds                                                                  *)
(***************************************************************************)
MaxCreate == 3
MaxDeps == 2
MaxValTasks == 3
MaxCtxTasks == 3
MaxPastDays == 2
MaxAheadDays == 32

(***************************************************************************)
(* Helpers                                                                 *)
(***************************************************************************)
Range(s) == {s[i] : i \in DOMAIN s}

RECURSIVE SetToSeq(_)
SetToSeq(S) ==
    IF S = {} THEN <<>>
    ELSE LET m == CHOOSE x \in S : \A y \in S : x <= y
         IN <<m>> \o SetToSeq(S \ {m})

DepLists(S) == UNION {[1..n -> S] : n \in 0..MaxDeps}

None == -1

\* the explanation column while it is NULL
NoExplanation == <<>>
Today == 0

Idle == [kind |-> "idle"]

(***************************************************************************)
(* validate_tasks (main.py 183-223)                                        *)
(***************************************************************************)
TaskIdSet(tasks) == {tasks[i].id : i \in DOMAIN tasks}

\* graph[task.id] = set(deps); a later task with the same id overwrites
BuildGraph(tasks) ==
    [n \in TaskIdSet(tasks) |->
        LET last == CHOOSE i \in DOMAIN tasks :
                        /\ tasks[i].id = n
                        /\ \A j \in DOMAIN tasks : tasks[j].id = n => j <= i
        IN Range(tasks[last].dependencies)]

\* graph.get(node, set())
GraphGet(graph, node) == IF node \in DOMAIN graph THEN graph[node] ELSE {}

\* db.query(TaskDB).filter(TaskDB.id == neighbor).first() is falsy
MissingInDb(env, neighbor) == neighbor \notin env.dbIds

\* neighbor not in task_ids, and not in the database either
IsMissing(env, neighbor) ==
    neighbor \notin env.task_ids /\ MissingInDb(env, neighbor)

\* elif neighbor in rec_stack: return True
BackEdgeMutant(neighbor, rec_stack) == TRUE
BackEdge(neighbor, rec_stack) == neighbor \in rec_stack

HcFalse(visited, rec_stack) ==
    [kind |-> "False", visited |-> visited, rec_stack |-> rec_stack,
     node |-> 0, neighbor |-> 0]
HcTrue == [kind |-> "True", visited |-> {}, rec_stack |-> {},
           node |-> 0, neighbor |-> 0]
HcRaise(node, neighbor) ==
    [kind |-> "raise", visited |-> {}, rec_stack |-> {},
     node |-> node, neighbor |-> neighbor]

(***************************************************************************)
(* has_cycle yields the set of results the traversal can produce: the      *)
(* neighbours are held in a Python set, whose iteration order is not       *)
(* fixed, so every order of the remaining neighbours is considered.        *)
(***************************************************************************)
RECURSIVE has_cycle(_, _, _, _)
RECURSIVE for_neighbor(_, _, _, _, _)

has_cycle(env, node, visited, rec_stack) ==
    for_neighbor(env, node, GraphGet(env.graph, node),
                 visited \cup {node}, rec_stack \cup {node})

for_neighbor(env, node, todo, visited, rec_stack) ==
    IF todo = {}
    THEN {HcFalse(visited, rec_stack \ {node})}
    ELSE UNION {
        IF IsMissing(env, neighbor)
        THEN {HcRaise(node, neighbor)}
        ELSE IF neighbor \notin visited
        THEN UNION {
                IF r.kind = "False"
                THEN for_neighbor(env, node, todo \ {neighbor},
                                  r.visited, r.rec_stack)
                ELSE {r}
                : r \in has_cycle(env, neighbor, visited, rec_stack) }
        ELSE IF BackEdge(neighbor, rec_stack)
        THEN {HcTrue}
        ELSE for_neighbor(env, node, todo \ {neighbor}, visited, rec_stack)
        : neighbor \in todo }

VOk == [kind |-> "ok", status |-> 200, task_id |-> 0, missing_id |-> 0]
VCircular(task_id) ==
    [kind |-> "circular", status |-> 400, task_id |-> task_id, missing_id |-> 0]
VMissing(node, neighbor) ==
    [kind |-> "missing", status |-> 400, task_id |-> node, missing_id |-> neighbor]

RECURSIVE for_task(_, _, _)
for_task(env, tasks, i) ==
    IF i > Len(tasks)
    THEN {VOk}
    ELSE UNION {
        IF r.kind = "False" THEN for_task(env, tasks, i + 1)
        ELSE IF r.kind = "True" THEN {VCircular(tasks[i].id)}
        ELSE {VMissing(r.node, r.neighbor)}
        : r \in has_cycle(env, tasks[i].id, {}, {}) }

\* the set of outcomes of validate_tasks(db, tasks) with task_ids = None
validate_tasks(dbIds, tasks) ==
    for_task([graph |-> BuildGraph(tasks), task_ids |-> TaskIdSet(tasks),
              dbIds |-> dbIds], tasks, 1)

(***************************************************************************)
(* Repository and handlers                                                 *)
(***************************************************************************)
SysDueDates == {Today - 1, Today + 5}
SysImportance == {3, 9}
SysHours == {2}

TaskBaseInputs ==
    [due_date : SysDueDates, estimated_hours : SysHours,
     importance : SysImportance, dependencies : DepLists(0..MaxCreate)]

\* for dep_id in task.dependencies: append the row if it exists
ExistingDeps(dependencies) ==
    SelectSeq(dependencies, LAMBDA dep_id : dep_id \in DOMAIN db)

\* create_task (main.py 240-266)
create_task_mutant(task) ==
    /\ nextId <= MaxCreate
    /\ LET db_task == [id |-> nextId,
                       due_date |-> task.due_date,
                       estimated_hours |-> task.estimated_hours,
                       importance |-> task.importance,
                       score |-> None,
                       explanation |-> NoExplanation,
                       dependencies |-> task.dependencies]
       IN /\ db' = db @@ (nextId :> db_task)
          /\ resp' = [op |-> "create", arg |-> task, status |-> 201,
                      detail |-> db_task]
    /\ nextId' = nextId + 1
    /\ UNCHANGED <<valIn, valOut, calcIn, calcOut, pending>>
create_task(task) ==
    /\ nextId <= MaxCreate
    /\ LET db_task == [id |-> nextId,
                       due_date |-> task.due_date,
                       estimated_hours |-> task.estimated_hours,
                       importance |-> task.importance,
                       score |-> None,
                       explanation |-> NoExplanation,
                       dependencies |-> ExistingDeps(task.dependencies)]
       IN \E out \in validate_tasks(DOMAIN db, <<db_task>>) :
            IF out.kind = "ok"
            THEN /\ db' = db @@ (nextId :> db_task)
                 /\ resp' = [op |-> "create", arg |-> task, status |-> 201,
                             detail |-> db_task]
            ELSE /\ db' = db
                 /\ resp' = [op |-> "create", arg |-> task, status |-> 400,
                             detail |-> out]
    /\ nextId' = nextId + 1
    /\ UNCHANGED <<valIn, valOut, calcIn, calcOut, pending>>

\* task_id in (t.dependencies or []): a str compared with TaskDB rows;
\* TaskDB defines no __eq__, so a str never equals a row
StrEqualsRow(task_id, row_id) == FALSE

\* the dependent_tasks list built by delete_task (main.py 381-384)
dependent_tasks(task_id) ==
    {t \in DOMAIN db :
        \E i \in DOMAIN db[t].dependencies :
            StrEqualsRow(task_id, db[t].dependencies[i])}

\* db.delete(task); db.commit(): the row goes, and with it the rows of the
\* association table that name it on either side (relationship + backref)
DeleteRow(task_id) ==
    [t \in DOMAIN db \ {task_id} |->
        [db[t] EXCEPT !.dependencies =
            SelectSeq(@, LAMBDA d : d # task_id)]]

\* the body of the try block of delete_task (main.py 375-400)
delete_try(task_id) ==
    IF task_id \notin DOMAIN db
    THEN [raised |-> TRUE, status |-> 404, total_dependents |-> 0, db |-> db]
    ELSE IF dependent_tasks(task_id) # {}
    THEN [raised |-> TRUE, status |-> 400,
          total_dependents |-> Cardinality(dependent_tasks(task_id)), db |-> db]
    ELSE [raised |-> FALSE, status |-> 204, total_dependents |-> 0,
          db |-> DeleteRow(task_id)]

\* what the response tells of the outcome of the try block
DeleteDetail(r) ==
    [raised |-> r.raised, status |-> r.status,
     total_dependents |-> r.total_dependents]

\* delete_task (main.py 369-403): except Exception catches the
\* HTTPException raised in the try block and raises a 500 in its place
delete_task(task_id) ==
    /\ LET r == delete_try(task_id)
       IN IF r.raised
          THEN /\ db' = db
               /\ resp' = [op |-> "delete", arg |-> task_id, status |-> 500,
                           detail |-> DeleteDetail(r)]
          ELSE /\ db' = r.db
               /\ resp' = [op |-> "delete", arg |-> task_id,
                           status |-> r.status, detail |-> DeleteDetail(r)]
    /\ UNCHANGED <<nextId, valIn, valOut, calcIn, calcOut, pending>>

CreateTask == \E task \in TaskBaseInputs : create_task(task)
DeleteTask == \E task_id \in 0..MaxCreate : delete_task(task_id)

(***************************************************************************)
(* validate_tasks applied to task lists drawn from a bounded set.          *)
(* Tasks have ids 1..n; a dependency names one of them or the id 0, which  *)
(* is not in the list and is persisted in the repository or not.           *)
(***************************************************************************)
ValDepLists(n) ==
    {SetToSeq(S) : S \in {T \in SUBSET (0..n) : Cardinality(T) <= MaxDeps}}

\* the tasks 1..n with the given dependency lists, listed in id order or
\* in the reverse order
ValTaskList(n, deps, reversed) ==
    [i \in 1..n |->
        LET id == IF reversed THEN n + 1 - i ELSE i
        IN [id |-> id, dependencies |-> deps[id]]]

InitValidate ==
    /\ db = <<>>
    /\ nextId = 1
    /\ resp = [op |-> "none", arg |-> 0, status |-> 0, detail |-> 0]
    /\ \E n \in 1..MaxValTasks :
         \E deps \in [1..n -> ValDepLists(n)], reversed \in BOOLEAN,
            dbIds \in {{}, {0}} :
            valIn = [kind |-> "input", tasks |-> ValTaskList(n, deps, reversed),
                     dbIds |-> dbIds]
    /\ valOut = Idle
    /\ calcIn = Idle
    /\ calcOut = Idle
    /\ pending = Idle

ValidateTasks ==
    /\ valIn.kind = "input"
    /\ valOut.kind = "idle"
    /\ valOut' \in validate_tasks(valIn.dbIds, valIn.tasks)
    /\ UNCHANGED <<db, nextId, resp, valIn, calcIn, calcOut, pending>>

NextValidate == ValidateTasks

SpecValidate == InitValidate /\ [][NextValidate]_vars

Init ==
    /\ db = <<>>
    /\ nextId = 1
    /\ resp = [op |-> "none", arg |-> 0, status |-> 0, detail |-> 0]
    /\ valIn = Idle
    /\ valOut = Idle
    /\ calcIn = Idle
    /\ calcOut = Idle
    /\ pending = Idle

Next == CreateTask \/ DeleteTask

Spec == Init /\ [][Next]_vars

(***************************************************************************)
(* PriorityCalculator (main.py 69-144)                                     *)
(***************************************************************************)
\* PriorityWeights defaults 0.4, 0.3, 0.2, 0.1, in tenths
DefaultWeights ==
    [urgency |-> 4, importance |-> 3, effort |-> 2, dependencies |-> 1]

MinImportance == 1
MaxImportance == 10

\* _calculate_urgency_score (main.py 91-119)
calculate_urgency_score_mutant(due_date) ==
    LET days_until_due == due_date - Today
    IN IF days_until_due < 0 THEN 100
       ELSE IF days_until_due = 0 THEN 90
       ELSE IF days_until_due <= 1 THEN 80
       ELSE IF days_until_due < 3 THEN 70
       ELSE IF days_until_due <= 7 THEN 50
       ELSE IF days_until_due <= 14 THEN 30
       ELSE IF days_until_due <= 30 THEN 20
       ELSE 10
calculate_urgency_score(due_date) ==
    LET days_until_due == due_date - Today
    IN IF days_until_due < 0 THEN 100
       ELSE IF days_until_due = 0 THEN 90
       ELSE IF days_until_due <= 1 THEN 80
       ELSE IF days_until_due <= 3 THEN 70
       ELSE IF days_until_due <= 7 THEN 50
       ELSE IF days_until_due <= 14 THEN 30
       ELSE IF days_until_due <= 30 THEN 20
       ELSE 10

\* (task.importance / 10.0) * 100
calculate_importance_score(importance) == importance * 10

\* _calculate_effort_score (main.py 121-132)
calculate_effort_score_mutant(estimated_hours) ==
    IF estimated_hours <= 1 THEN 100
    ELSE IF estimated_hours <= 4 THEN 80
    ELSE IF estimated_hours <= 8 THEN 60
    ELSE IF estimated_hours <= 16 THEN 20
    ELSE 40
calculate_effort_score(estimated_hours) ==
    IF estimated_hours <= 1 THEN 100
    ELSE IF estimated_hours <= 4 THEN 80
    ELSE IF estimated_hours <= 8 THEN 60
    ELSE IF estimated_hours <= 16 THEN 40
    ELSE 20

\* sum(1 for t in all_tasks.values() if task.id in t.dependencies)
dependent_count(task, all_tasks) ==
    Cardinality({k \in DOMAIN all_tasks :
                    task.id \in Range(all_tasks[k].dependencies)})

\* _calculate_dependency_score (main.py 134-144)
calculate_dependency_score_mutant(task, all_tasks) ==
    IF dependent_count(task, all_tasks) > 0 THEN 100 ELSE 0
calculate_dependency_score(task, all_tasks) ==
    IF task.dependencies = <<>>
    THEN 0
    ELSE IF dependent_count(task, all_tasks) > 0 THEN 100 ELSE 0

\* min(max(score, 0), 100), on tenths of a point
clamp_mutant(score) == IF score < 0 THEN 0 ELSE score
clamp(score) ==
    LET lower == IF score > 0 THEN score ELSE 0
    IN IF lower < 1000 THEN lower ELSE 1000

\* calculate_score (main.py 73-89): the sub-scores, the weighted sum and
\* the value returned, the last two in tenths of a point
calculate_score(weights, task, all_tasks) ==
    LET urgency_score == calculate_urgency_score(task.due_date)
        importance_score == calculate_importance_score(task.importance)
        effort_score == calculate_effort_score(task.estimated_hours)
        dependency_score == calculate_dependency_score(task, all_tasks)
        score == weights.urgency * urgency_score
                 + weights.importance * importance_score
                 + weights.effort * effort_score
                 + weights.dependencies * dependency_score
    IN [urgency |-> urgency_score, importance |-> importance_score,
        effort |-> effort_score, dependency |-> dependency_score,
        raw |-> score, score |-> clamp(score)]

(***************************************************************************)
(* calculate_score applied to every task of a context drawn from a bounded *)
(* set.  A context has tasks 1..n; a task depends on tasks created before  *)
(* it, as in every context the handlers build.  The tasks of one context   *)
(* share due date, importance and hours: a task's score depends on its own *)
(* attributes and on the dependency lists only.                            *)
(***************************************************************************)
CalcDueDates ==
    {Today - 1, Today, Today + 1, Today + 3, Today + 7, Today + 14,
     Today + 30, Today + 31}
CalcHours == {1, 4, 8, 16, 17}
WeightValues == {-10, 15}

WeightChoices ==
    {DefaultWeights} \cup
    [urgency : WeightValues, importance : WeightValues,
     effort : WeightValues, dependencies : WeightValues]

\* the dependency lists of the i-th task of a context: earlier tasks only
CtxDepLists(i) ==
    {SetToSeq(S) : S \in {T \in SUBSET (1..(i - 1)) : Cardinality(T) <= MaxDeps}}

Context(deps, due_date, importance, estimated_hours) ==
    [i \in DOMAIN deps |->
        [id |-> i, due_date |-> due_date, importance |-> importance,
         estimated_hours |-> estimated_hours, dependencies |-> deps[i]]]

InitCalc ==
    /\ db = <<>>
    /\ nextId = 1
    /\ resp = [op |-> "none", arg |-> 0, status |-> 0, detail |-> 0]
    /\ valIn = Idle
    /\ valOut = Idle
    /\ \E n \in 1..MaxCtxTasks :
         \E deps \in [1..n -> CtxDepLists(n)] :
            /\ \A i \in 1..n : deps[i] \in CtxDepLists(i)
            /\ \E weights \in WeightChoices, due_date \in CalcDueDates,
                  importance \in MinImportance..MaxImportance,
                  estimated_hours \in CalcHours :
                  calcIn = [kind |-> "input", weights |-> weights,
                            all_tasks |-> Context(deps, due_date, importance,
                                                  estimated_hours)]
    /\ calcOut = Idle
    /\ pending = Idle

\* every day of the bounded range, for a lone task under default weights
InitUrgency ==
    /\ db = <<>>
    /\ nextId = 1
    /\ resp = [op |-> "none", arg |-> 0, status |-> 0, detail |-> 0]
    /\ valIn = Idle
    /\ valOut = Idle
    /\ \E due_date \in (Today - MaxPastDays)..(Today + MaxAheadDays),
          importance \in MinImportance..MaxImportance,
          estimated_hours \in CalcHours :
            calcIn = [kind |-> "input", weights |-> DefaultWeights,
                      all_tasks |-> Context(<<<<>>>>, due_date, importance,
                                            estimated_hours)]
    /\ calcOut = Idle
    /\ pending = Idle

\* for task in tasks: task.score = calculator.calculate_score(task, all_tasks)
CalculateScores ==
    /\ calcIn.kind = "input"
    /\ calcOut.kind = "idle"
    /\ calcOut' = [kind |-> "scored",
                   scores |-> [k \in DOMAIN calcIn.all_tasks |->
                        calculate_score(calcIn.weights, calcIn.all_tasks[k],
                                        calcIn.all_tasks)]]
    /\ UNCHANGED <<db, nextId, resp, valIn, valOut, calcIn, pending>>

NextCalc == CalculateScores

SpecCalc == InitCalc /\ [][NextCalc]_vars

SpecUrgency == InitUrgency /\ [][NextCalc]_vars

(***************************************************************************)
(* generate_explanation (main.py 146-181).  An explanation is the sequence *)
(* of its fragments (the code joins them with ", "); a fragment holds its  *)
(* kind, the number it prints and whether it ends in the plural "s".       *)
(***************************************************************************)
Fragment(kind, n, plural) == [kind |-> kind, n |-> n, plural |-> plural]

\* "No specific factors identified"
NoFactors == <<Fragment("no_factors", 0, FALSE)>>

\* the due-date fragment (main.py 151-158)
explain_urgency_mutant(due_date) ==
    LET days_until_due == due_date - Today
    IN IF days_until_due < 0
       THEN <<Fragment("past_due", -days_until_due, TRUE)>>
       ELSE IF days_until_due = 0 THEN <<Fragment("due_today", 0, FALSE)>>
       ELSE IF days_until_due < 3
       THEN <<Fragment("due_in", days_until_due, TRUE)>>
       ELSE <<>>
explain_urgency(due_date) ==
    LET days_until_due == due_date - Today
    IN IF days_until_due < 0
       THEN <<Fragment("past_due", -days_until_due, TRUE)>>
       ELSE IF days_until_due = 0 THEN <<Fragment("due_today", 0, FALSE)>>
       ELSE IF days_until_due <= 3
       THEN <<Fragment("due_in", days_until_due, TRUE)>>
       ELSE <<>>

\* the importance fragment (main.py 161-164)
explain_importance(importance) ==
    IF importance >= 8 THEN <<Fragment("high_importance", 0, FALSE)>>
    ELSE IF importance <= 3 THEN <<Fragment("low_importance", 0, FALSE)>>
    ELSE <<>>

\* the effort fragment (main.py 167-170)
explain_effort(estimated_hours) ==
    IF estimated_hours <= 2 THEN <<Fragment("quick_task", 0, FALSE)>>
    ELSE IF estimated_hours >= 8 THEN <<Fragment("time_consuming", 0, FALSE)>>
    ELSE <<>>

\* "Depends on N tasks" (main.py 173-174)
explain_depends(task) ==
    IF task.dependencies # <<>>
    THEN <<Fragment("depends_on", Len(task.dependencies), TRUE)>>
    ELSE <<>>

\* "Blocks N other task(s)" (main.py 177-179)
explain_blocks(task, all_tasks) ==
    LET n == dependent_count(task, all_tasks)
    IN IF n > 0 THEN <<Fragment("blocks", n, n > 1)>> ELSE <<>>

generate_explanation(task, all_tasks) ==
    LET explanations == explain_urgency(task.due_date)
                        \o explain_importance(task.importance)
                        \o explain_effort(task.estimated_hours)
                        \o explain_depends(task)
                        \o explain_blocks(task, all_tasks)
    IN IF explanations # <<>> THEN explanations ELSE NoFactors

(***************************************************************************)
(* generate_explanation applied to every task of a drawn context           *)
(***************************************************************************)
ExplainDueDates ==
    {Today - 2, Today - 1, Today, Today + 1, Today + 2, Today + 3, Today + 4}
ExplainHours == {1, 2, 3, 7, 8, 9}

InitExplain ==
    /\ db = <<>>
    /\ nextId = 1
    /\ resp = [op |-> "none", arg |-> 0, status |-> 0, detail |-> 0]
    /\ valIn = Idle
    /\ valOut = Idle
    /\ \E n \in 1..MaxCtxTasks :
         \E deps \in [1..n -> CtxDepLists(n)] :
            /\ \A i \in 1..n : deps[i] \in CtxDepLists(i)
            /\ \E due_date \in ExplainDueDates,
                  importance \in MinImportance..MaxImportance,
                  estimated_hours \in ExplainHours :
                  calcIn = [kind |-> "input", weights |-> DefaultWeights,
                            all_tasks |-> Context(deps, due_date, importance,
                                                  estimated_hours)]
    /\ calcOut = Idle
    /\ pending = Idle

\* for task in tasks: task.explanation = calculator.generate_explanation(..)
ExplainTasks ==
    /\ calcIn.kind = "input"
    /\ calcOut.kind = "idle"
    /\ calcOut' = [kind |-> "explained",
                   explanations |-> [k \in DOMAIN calcIn.all_tasks |->
                        generate_explanation(calcIn.all_tasks[k],
                                             calcIn.all_tasks)]]
    /\ UNCHANGED <<db, nextId, resp, valIn, valOut, calcIn, pending>>

NextExplain == ExplainTasks

SpecExplain == InitExplain /\ [][NextExplain]_vars

(***************************************************************************)
(* analyze_tasks (main.py 282-333)                                         *)
(***************************************************************************)
\* db.query(TaskDB).all(): the rows in the order they were inserted
QueryAll(d) == [i \in 1..Cardinality(DOMAIN d) |-> d[SetToSeq(DOMAIN d)[i]]]

\* the id uuid4 gives the i-th task of a request: one no row has and no
\* dependency list can name
RequestId(i) == MaxCreate + i

\* Task(**task.dict()) for the i-th task of a request
RequestTask(task, i) ==
    [id |-> RequestId(i),
     due_date |-> task.due_date,
     estimated_hours |-> task.estimated_hours,
     importance |-> task.importance,
     score |-> None,
     explanation |-> NoExplanation,
     dependencies |-> task.dependencies]

\* all_tasks (main.py 300-305): the tasks of the request, then the rows
\* whose id is not among them
MergeTasks(tasks, db_tasks) ==
    tasks \o SelectSeq(db_tasks,
                       LAMBDA r : \A i \in DOMAIN tasks : tasks[i].id # r.id)

\* the dict all_tasks, keyed by id
TaskMap(list) ==
    [id \in {list[i].id : i \in DOMAIN list} |->
        list[CHOOSE i \in DOMAIN list : list[i].id = id]]

\* key=lambda x: x.score or 0
SortKey(x) == IF x.score = None THEN 0 ELSE x.score

\* the index holding the first of the largest keys of a non-empty list
FirstMax_mutant(s) ==
    CHOOSE i \in DOMAIN s :
        /\ \A j \in DOMAIN s : SortKey(s[j]) <= SortKey(s[i])
        /\ \A j \in DOMAIN s : SortKey(s[j]) = SortKey(s[i]) => j <= i
FirstMax(s) ==
    CHOOSE i \in DOMAIN s :
        /\ \A j \in DOMAIN s : SortKey(s[j]) <= SortKey(s[i])
        /\ \A j \in DOMAIN s : SortKey(s[j]) = SortKey(s[i]) => i <= j

\* sorted(tasks, key=..., reverse=True): descending, and stable
RECURSIVE sorted(_)
sorted(s) ==
    IF s = <<>> THEN <<>>
    ELSE LET i == FirstMax(s)
         IN <<s[i]>> \o
            sorted([j \in 1..(Len(s) - 1) |-> IF j < i THEN s[j] ELSE s[j + 1]])

\* PriorityCalculator(weights=request.weights): weights or PriorityWeights()
CalculatorWeights(weights) ==
    IF weights = <<>> THEN DefaultWeights ELSE weights[1]

\* the scoring loop (main.py 314-316)
ScoreTasks(weights, tasks, all_tasks) ==
    [i \in DOMAIN tasks |->
        [tasks[i] EXCEPT
            !.score = calculate_score(weights, tasks[i], all_tasks).score,
            !.explanation = generate_explanation(tasks[i], all_tasks)]]

\* the rows after the updates of the loop (main.py 319-322) are committed
UpdateRows(d, scored) ==
    [t \in DOMAIN d |->
        IF \E i \in DOMAIN scored : scored[i].id = t
        THEN LET task == scored[CHOOSE i \in DOMAIN scored : scored[i].id = t]
             IN [d[t] EXCEPT !.score = task.score,
                             !.explanation = task.explanation]
        ELSE d[t]]

\* validate_tasks raised an HTTPException: the handler ends at main.py 308
Raised_mutant(out) == out.kind = "circular"
Raised(out) == out.kind # "ok"

\* analyze_tasks from main.py 291 on, db_tasks being the rows read at
\* main.py 288
analyze_from(request, db_tasks) ==
    /\ LET tasks == IF request.tasks = <<>>
                    THEN db_tasks
                    ELSE [i \in DOMAIN request.tasks |->
                             RequestTask(request.tasks[i], i)]
           all_list == MergeTasks(tasks, db_tasks)
           all_tasks == TaskMap(all_list)
           scored == ScoreTasks(CalculatorWeights(request.weights), tasks,
                                all_tasks)
       IN IF tasks = <<>>
          THEN /\ db' = db
               /\ resp' = [op |-> "analyze", arg |-> request, status |-> 200,
                           detail |-> [tasks |-> <<>>, strategy |-> "default",
                                       weights |-> <<>>]]
          ELSE \E out \in validate_tasks(DOMAIN db, all_list) :
                 IF Raised(out)
                 THEN /\ db' = db
                      /\ resp' = [op |-> "analyze", arg |-> request,
                                  status |-> out.status, detail |-> out]
                 ELSE /\ db' = UpdateRows(db, scored)
                      /\ resp' = [op |-> "analyze", arg |-> request,
                                  status |-> 200,
                                  detail |->
                                    [tasks |-> sorted(scored),
                                     strategy |-> IF request.weights # <<>>
                                                  THEN "custom" ELSE "default",
                                     weights |-> request.weights]]

analyze_tasks(request) ==
    /\ analyze_from(request, QueryAll(db))
    /\ UNCHANGED <<nextId, valIn, valOut, calcIn, calcOut, pending>>

(***************************************************************************)
(* The handlers create_task, delete_task and analyze_tasks, called in any  *)
(* order on a repository that starts empty                                 *)
(***************************************************************************)
MaxBatch == 2

ApiDueDates == {Today + 5}
ApiImportance == {9}
ApiHours == {2}

\* dependency lists of a create request: ids of rows, of the row being
\* created, of rows created later and of deleted rows
ApiDepLists ==
    {SetToSeq(S) : S \in {T \in SUBSET (1..MaxCreate) : Cardinality(T) <= MaxDeps}}

ApiCreateInputs ==
    [due_date : ApiDueDates, estimated_hours : ApiHours,
     importance : ApiImportance, dependencies : ApiDepLists]

\* the tasks of an analysis request: one past due that depends on nothing,
\* and one that depends on the first row, which may exist or not
ApiRequestTasks ==
    {[due_date |-> Today - 1, estimated_hours |-> 2, importance |-> 9,
      dependencies |-> <<>>],
     [due_date |-> Today + 5, estimated_hours |-> 2, importance |-> 9,
      dependencies |-> <<1>>]}

\* request.weights is left out of the requests: the default weights
ApiWeights == {<<>>}

ApiCreateTask == \E task \in ApiCreateInputs : create_task(task)

AnalyzeTasks ==
    \E n \in 0..MaxBatch :
        \E tasks \in [1..n -> ApiRequestTasks], weights \in ApiWeights :
            analyze_tasks([tasks |-> tasks, weights |-> weights])

NextApi == ApiCreateTask \/ DeleteTask \/ AnalyzeTasks

SpecApi == Init /\ [][NextApi]_vars

(***************************************************************************)
(* suggest_tasks (main.py 335-362)                                         *)
(***************************************************************************)
SuggestLimit == 3

\* s[:n]
Take(s, n) == SubSeq(s, 1, IF Len(s) < n THEN Len(s) ELSE n)

\* the scoring loop (main.py 356-357): scores only, default weights
SuggestScores(task_models, task_map) ==
    [i \in DOMAIN task_models |->
        [task_models[i] EXCEPT
            !.score = calculate_score(DefaultWeights, task_models[i],
                                      task_map).score]]

\* sorted(task_models, key=..., reverse=True)[:3]
suggested_mutant(task_models) == Take(task_models, SuggestLimit)
suggested(task_models) == Take(sorted(task_models), SuggestLimit)

suggest_tasks ==
    /\ LET tasks == QueryAll(db)
           task_map == TaskMap(tasks)
       IN resp' = [op |-> "suggest", arg |-> 0, status |-> 200,
                   detail |-> IF tasks = <<>> THEN <<>>
                              ELSE suggested(SuggestScores(tasks, task_map))]
    /\ UNCHANGED <<db, nextId, valIn, valOut, calcIn, calcOut, pending>>

(***************************************************************************)
(* suggest_tasks called on repositories that create_task calls have built: *)
(* rows 1..n that depend on earlier rows and have no score yet             *)
(***************************************************************************)
MaxRepoTasks == 4

RepoAttributes ==
    {[due_date |-> Today - 1, estimated_hours |-> 2, importance |-> 9],
     [due_date |-> Today + 5, estimated_hours |-> 2, importance |-> 3]}

RepoRow(id, attributes, dependencies) ==
    [id |-> id,
     due_date |-> attributes.due_date,
     estimated_hours |-> attributes.estimated_hours,
     importance |-> attributes.importance,
     score |-> None,
     explanation |-> NoExplanation,
     dependencies |-> dependencies]

InitSuggest ==
    /\ \E n \in 0..MaxRepoTasks :
         \E deps \in [1..n -> CtxDepLists(n)] :
            /\ \A i \in 1..n : deps[i] \in CtxDepLists(i)
            /\ \E attributes \in [1..n -> RepoAttributes] :
                  db = [i \in 1..n |-> RepoRow(i, attributes[i], deps[i])]
            /\ nextId = n + 1
    /\ resp = [op |-> "none", arg |-> 0, status |-> 0, detail |-> 0]
    /\ valIn = Idle
    /\ valOut = Idle
    /\ calcIn = Idle
    /\ calcOut = Idle
    /\ pending = Idle

SuggestTasks == suggest_tasks

NextSuggest == SuggestTasks

SpecSuggest == InitSuggest /\ [][NextSuggest]_vars

(***************************************************************************)
(* calculate_score applied to a task and to the same task with one         *)
(* attribute raised, the other tasks of the context being the same         *)
(***************************************************************************)
MonoDueDates ==
    {Today - 1, Today, Today + 1, Today + 2, Today + 3, Today + 4, Today + 7,
     Today + 8, Today + 14, Today + 15, Today + 30, Today + 31}
MonoHours == {1, 2, 4, 5, 8, 9, 16, 17}

\* a chain: the first task has a dependent only, the second a dependency
\* and a dependent, the third a dependency only
MonoDeps == <<<<>>, <<1>>, <<2>>>>

\* the task with a later due date, a higher importance or more hours
Raise(task) ==
    {[task EXCEPT !.due_date = d] : d \in {x \in MonoDueDates : x > task.due_date}}
    \cup {[task EXCEPT !.importance = i] :
            i \in (task.importance + 1)..MaxImportance}
    \cup {[task EXCEPT !.estimated_hours = h] :
            h \in {x \in MonoHours : x > task.estimated_hours}}

InitMono ==
    /\ db = <<>>
    /\ nextId = 1
    /\ resp = [op |-> "none", arg |-> 0, status |-> 0, detail |-> 0]
    /\ valIn = Idle
    /\ valOut = Idle
    /\ \E due_date \in MonoDueDates,
          importance \in MinImportance..MaxImportance,
          estimated_hours \in MonoHours, k \in DOMAIN MonoDeps :
          LET all_tasks == Context(MonoDeps, due_date, importance,
                                   estimated_hours)
          IN \E raised \in Raise(all_tasks[k]) :
                calcIn = [kind |-> "pair", weights |-> DefaultWeights,
                          all_tasks |-> all_tasks, k |-> k,
                          raised |-> [all_tasks EXCEPT ![k] = raised]]
    /\ calcOut = Idle
    /\ pending = Idle

\* calculator.calculate_score(task, tasks) for the task and for its raised
\* twin
ScorePair ==
    /\ calcIn.kind = "pair"
    /\ calcOut.kind = "idle"
    /\ calcOut' = [kind |-> "compared",
                   low |-> calculate_score(calcIn.weights,
                                           calcIn.all_tasks[calcIn.k],
                                           calcIn.all_tasks),
                   high |-> calculate_score(calcIn.weights,
                                            calcIn.raised[calcIn.k],
                                            calcIn.raised)]
    /\ UNCHANGED <<db, nextId, resp, valIn, valOut, calcIn, pending>>

NextMono == ScorePair

SpecMono == InitMono /\ [][NextMono]_vars

(***************************************************************************)
(* analyze_tasks running while create_task runs.  analyze_tasks is an      *)
(* async def and runs on the event loop; create_task is a def, which       *)
(* FastAPI runs in a worker thread, with a database session of its own.    *)
(* No lock and no transaction spans the query of main.py 288 and the       *)
(* commit of main.py 324, so a create_task can commit between them.        *)
(***************************************************************************)
ConcRequests ==
    {[tasks |-> <<>>, weights |-> weights] : weights \in ApiWeights}
    \cup {[tasks |-> <<task>>, weights |-> weights] :
            task \in ApiRequestTasks, weights \in ApiWeights}

\* analyze_tasks up to and including the query of main.py 288
AnalyzeRead ==
    /\ pending.kind = "idle"
    /\ \E request \in ConcRequests :
          pending' = [kind |-> "read", request |-> request,
                      db_tasks |-> QueryAll(db)]
    /\ UNCHANGED <<db, nextId, resp, valIn, valOut, calcIn, calcOut>>

\* analyze_tasks from main.py 291 to its end, on the rows it read
AnalyzeCommit ==
    /\ pending.kind = "read"
    /\ analyze_from(pending.request, pending.db_tasks)
    /\ pending' = Idle
    /\ UNCHANGED <<nextId, valIn, valOut, calcIn, calcOut>>

NextConc == ApiCreateTask \/ AnalyzeRead \/ AnalyzeCommit

SpecConc == Init /\ [][NextConc]_vars

(***************************************************************************)
(* Properties of the handlers                                              *)
(***************************************************************************)
\* the persisted tasks of repository d that list id as a dependency
Dependents(d, id) == {t \in DOMAIN d : id \in Range(d[t].dependencies)}

\* C2: delete_task on an existing task succeeds with 204 and removes the
\* task when no persisted task lists it as a dependency; when at least one
\* persisted task lists it, it fails, leaves the repository unchanged and
\* reports the number of dependent tasks.
C2_DeleteHonoursDependents ==
    [][(resp'.op = "delete" /\ resp'.arg \in DOMAIN db) =>
        IF Dependents(db, resp'.arg) = {}
        THEN resp'.status = 204 /\ resp'.arg \notin DOMAIN db'
        ELSE /\ resp'.status # 204
             /\ db' = db
             /\ resp'.detail.total_dependents
                    = Cardinality(Dependents(db, resp'.arg))]_vars

\* C3: the user-correctable outcomes of delete_task are surfaced as
\* themselves: an id that is not in the repository yields 404, a deletion
\* conflict yields 400, and neither becomes a 500.
C3_DeleteErrorsSurfaced ==
    [][resp'.op = "delete" =>
        /\ resp'.arg \notin DOMAIN db => resp'.status = 404
        /\ resp'.detail.raised /\ resp'.detail.status = 400
               => resp'.status = 400
        /\ resp'.status # 500]_vars

\* C4: create_task with a dependency id that is not in the repository is
\* rejected with a missing-dependency error naming that id, and nothing is
\* persisted.
C4_CreateRejectsMissingDependency ==
    [][(/\ resp'.op = "create"
        /\ \E d \in Range(resp'.arg.dependencies) : d \notin DOMAIN db) =>
        /\ resp'.status = 400
        /\ resp'.detail.kind = "missing"
        /\ resp'.detail.missing_id \in Range(resp'.arg.dependencies)
        /\ resp'.detail.missing_id \notin DOMAIN db
        /\ db' = db]_vars

(***************************************************************************)
(* Properties of validate_tasks                                            *)
(***************************************************************************)
\* the dependency graph restricted to the task set
Restricted(tasks) ==
    [n \in TaskIdSet(tasks) |-> BuildGraph(tasks)[n] \cap TaskIdSet(tasks)]

\* the nodes reachable from the set S in one or more steps of g
RECURSIVE ReachFrom(_, _, _)
ReachFrom(g, S, acc) ==
    LET step == UNION {g[n] : n \in S} \ acc
    IN IF step = {} THEN acc ELSE ReachFrom(g, step, acc \cup step)

OnCycle(g, n) == n \in DOMAIN g /\ n \in ReachFrom(g, {n}, {})

HasDirectedCycle(g) == \E n \in DOMAIN g : OnCycle(g, n)

AllTargetsExist(in) ==
    \A i \in DOMAIN in.tasks :
        Range(in.tasks[i].dependencies) \subseteq
            (TaskIdSet(in.tasks) \cup in.dbIds)

\* C5: when every dependency target exists, validate_tasks raises the
\* circular-dependency error exactly when the dependency graph restricted
\* to the task set has a directed cycle, and otherwise succeeds.
C5_CircularIffCycle ==
    (valOut.kind # "idle" /\ AllTargetsExist(valIn)) =>
        /\ valOut.kind = "circular" <=> HasDirectedCycle(Restricted(valIn.tasks))
        /\ ~HasDirectedCycle(Restricted(valIn.tasks)) => valOut.kind = "ok"

\* a three-task chain 1 -> 2 -> 3 with the back-edge 3 -> 1 was rejected
C5_Witness ==
    /\ valOut.kind = "circular"
    /\ AllTargetsExist(valIn)
    /\ Len(valIn.tasks) = 3
    /\ BuildGraph(valIn.tasks) = (1 :> {2}) @@ (2 :> {3}) @@ (3 :> {1})

\* C6: the task id named by the circular-dependency error is the id of a
\* task that lies on a cycle of the dependency graph.
C6_NamedTaskOnCycle ==
    valOut.kind = "circular" =>
        OnCycle(Restricted(valIn.tasks), valOut.task_id)

(***************************************************************************)
(* Properties of the PriorityCalculator                                    *)
(***************************************************************************)
Scored == calcOut.kind = "scored"

\* C1: for every task, context and choice of the four weights, negative
\* weights and weights above 1 included, calculate_score returns a value
\* between 0 and 100 (0 and 1000 tenths).
C1_ScoreInRange ==
    Scored => \A k \in DOMAIN calcOut.scores :
                 calcOut.scores[k].score >= 0 /\ calcOut.scores[k].score <= 1000

\* a weight above 1 drove the weighted sum over 100 and the score is 100
C1_Witness ==
    /\ Scored
    /\ calcIn.weights.urgency > 10
    /\ \E k \in DOMAIN calcOut.scores :
          calcOut.scores[k].raw > 1000 /\ calcOut.scores[k].score = 1000

\* the context of three tasks in which 1 and 2 have no dependencies and 3
\* depends on both
ThreeTaskScenario ==
    /\ DOMAIN calcIn.all_tasks = 1..3
    /\ calcIn.all_tasks[1].dependencies = <<>>
    /\ calcIn.all_tasks[2].dependencies = <<>>
    /\ Range(calcIn.all_tasks[3].dependencies) = {1, 2}

\* C7: with equal due date, importance and hours, tasks A and B without
\* dependencies and task C depending on both, default weights give
\* score(A) > score(C) and score(B) > score(C).
C7_BlockersOutscoreDependent ==
    (Scored /\ calcIn.weights = DefaultWeights /\ ThreeTaskScenario) =>
        /\ calcOut.scores[1].score > calcOut.scores[3].score
        /\ calcOut.scores[2].score > calcOut.scores[3].score

\* C8: under default weights every past-due task without dependencies
\* scores above 70 (700 tenths), whatever its importance.
C8_PastDueAbove70 ==
    (Scored /\ calcIn.weights = DefaultWeights) =>
        \A k \in DOMAIN calcOut.scores :
            (/\ calcIn.all_tasks[k].due_date < Today
             /\ calcIn.all_tasks[k].dependencies = <<>>)
                => calcOut.scores[k].score > 700

\* the urgency table of days_until_due
UrgencyTable(d) ==
    CASE d < 0 -> 100
      [] d = 0 -> 90
      [] d = 1 -> 80
      [] d \in 2..3 -> 70
      [] d \in 4..7 -> 50
      [] d \in 8..14 -> 30
      [] d \in 15..30 -> 20
      [] d > 30 -> 10

\* C9: for every integer days_until_due the urgency sub-score is the one
\* of the table: below 0 gives 100, 0 gives 90, 1 gives 80, 2..3 gives 70,
\* 4..7 gives 50, 8..14 gives 30, 15..30 gives 20, above 30 gives 10.
C9_UrgencyTable ==
    Scored => \A k \in DOMAIN calcOut.scores :
                 calcOut.scores[k].urgency
                    = UrgencyTable(calcIn.all_tasks[k].due_date - Today)

\* a task due in exactly 3 days was scored
C9_Witness ==
    /\ Scored
    /\ \E k \in DOMAIN calcOut.scores :
          /\ calcIn.all_tasks[k].due_date - Today = 3
          /\ calcOut.scores[k].urgency = 70

\* the other tasks of the context that list the id of task k
OtherDependents(k) ==
    {j \in DOMAIN calcIn.all_tasks \ {k} :
        calcIn.all_tasks[k].id \in Range(calcIn.all_tasks[j].dependencies)}

Explained == calcOut.kind = "explained"

\* the number of tasks of the context that list the id of task t
FanIn(t) ==
    Cardinality({j \in DOMAIN calcIn.all_tasks :
                    t.id \in Range(calcIn.all_tasks[j].dependencies)})

\* the fragment f if its trigger holds, nothing otherwise
When(trigger, f) == IF trigger THEN {f} ELSE {}

\* the fragments whose trigger holds for task t
Triggered(t) ==
    LET d == t.due_date - Today
    IN When(d < 0, Fragment("past_due", -d, TRUE))
       \cup When(d = 0, Fragment("due_today", 0, FALSE))
       \cup When(d \in 1..3, Fragment("due_in", d, TRUE))
       \cup When(t.importance >= 8, Fragment("high_importance", 0, FALSE))
       \cup When(t.importance <= 3, Fragment("low_importance", 0, FALSE))
       \cup When(t.estimated_hours <= 2, Fragment("quick_task", 0, FALSE))
       \cup When(t.estimated_hours >= 8, Fragment("time_consuming", 0, FALSE))
       \cup When(t.dependencies # <<>>,
                 Fragment("depends_on", Len(t.dependencies), TRUE))
       \cup When(FanIn(t) > 0, Fragment("blocks", FanIn(t), FanIn(t) # 1))

\* the place of a fragment in the fixed order
FragmentRank(kind) ==
    CASE kind \in {"past_due", "due_today", "due_in"} -> 1
      [] kind \in {"high_importance", "low_importance"} -> 2
      [] kind \in {"quick_task", "time_consuming"} -> 3
      [] kind = "depends_on" -> 4
      [] kind = "blocks" -> 5
      [] OTHER -> 0

Analyzed == resp.op = "analyze" /\ resp.status = 200

\* the ids of the tasks an analysis scores: those given to the tasks of the
\* request, or every row when the request has no tasks
InputIds(request, d) ==
    IF request.tasks = <<>> THEN DOMAIN d
    ELSE {RequestId(i) : i \in DOMAIN request.tasks}

\* the place of a task in the input: that of its task in the request, or of
\* its row among the rows
InputPos(request, d, id) ==
    IF request.tasks = <<>> THEN Cardinality({t \in DOMAIN d : t <= id})
    ELSE id - MaxCreate

\* the attributes a scored task of the answer must carry
InputTask(request, d, id) ==
    IF request.tasks = <<>> THEN d[id]
    ELSE request.tasks[InputPos(request, d, id)]

\* C12: the list analyze_tasks returns is a permutation of the scored
\* tasks in descending score order, and tasks of equal score keep the
\* relative order they had in the input.
C12_SortedStable ==
    Analyzed =>
        LET out == resp.detail.tasks
            ids == InputIds(resp.arg, db)
        IN /\ Len(out) = Cardinality(ids)
           /\ {out[i].id : i \in DOMAIN out} = ids
           /\ \A i \in DOMAIN out :
                LET t == InputTask(resp.arg, db, out[i].id)
                IN /\ out[i].score \in 0..1000
                   /\ out[i].due_date = t.due_date
                   /\ out[i].importance = t.importance
                   /\ out[i].estimated_hours = t.estimated_hours
                   /\ out[i].dependencies = t.dependencies
           /\ \A i, j \in DOMAIN out : i < j =>
                \/ out[i].score > out[j].score
                \/ /\ out[i].score = out[j].score
                   /\ InputPos(resp.arg, db, out[i].id)
                        < InputPos(resp.arg, db, out[j].id)

\* an answer of three tasks in which the sort moved a task forward and two
\* tasks of equal score kept their input order
C12_Witness ==
    /\ Analyzed
    /\ Len(resp.detail.tasks) = 3
    /\ LET out == resp.detail.tasks
       IN /\ out[1].score > out[2].score
          /\ out[2].score = out[3].score
          /\ InputPos(resp.arg, db, out[1].id) > InputPos(resp.arg, db, out[2].id)

\* a request with a task that names a dependency that is no row
HasMissingDependency(request, d) ==
    \E i \in DOMAIN request.tasks :
        \E dep \in Range(request.tasks[i].dependencies) : dep \notin DOMAIN d

\* the graph of the rows
DbGraph(d) == [t \in DOMAIN d |-> Range(d[t].dependencies) \cap DOMAIN d]

\* the graph of the merged context of a request: its tasks, whose ids no
\* dependency list names, and the rows
MergedGraph(request, d) ==
    [n \in InputIds(request, d) \cup DOMAIN d |->
        IF n \in DOMAIN d THEN DbGraph(d)[n]
        ELSE Range(request.tasks[n - MaxCreate].dependencies) \cap DOMAIN d]

\* C13: an analysis whose batch names a dependency found neither in the
\* batch nor in the repository, or whose merged context has a cycle, fails
\* as a whole with the validation error: no scored task is returned and no
\* row changes.
C13_AllOrNothing ==
    [][(/\ resp'.op = "analyze"
        /\ resp'.arg.tasks # <<>>
        /\ \/ HasMissingDependency(resp'.arg, db)
           \/ HasDirectedCycle(MergedGraph(resp'.arg, db))) =>
        /\ resp'.status = 400
        /\ resp'.detail.kind \in {"missing", "circular"}
        /\ db' = db]_vars

\* a batch of two tasks, the first of them valid, was refused while the
\* repository held a row with a committed score
C13_Witness ==
    /\ resp.op = "analyze"
    /\ resp.status = 400
    /\ Len(resp.arg.tasks) = 2
    /\ resp.arg.tasks[1].dependencies = <<>>
    /\ \E t \in DOMAIN db : db[t].score # None

(***************************************************************************)
(* Properties of suggest_tasks                                             *)
(***************************************************************************)
Suggested == resp.op = "suggest"

\* the default-weight score of a row with the whole repository as context
RepoScore(id) == calculate_score(DefaultWeights, db[id], db).score

\* C14: suggest_tasks returns min(3, number of rows) distinct rows, each
\* with its default-weight score against the whole repository, in
\* non-increasing score order, and no row left out scores higher than a
\* row returned.
C14_TopThree ==
    Suggested =>
        LET out == resp.detail
            n == Cardinality(DOMAIN db)
            ids == {out[i].id : i \in DOMAIN out}
        IN /\ Len(out) = IF n < 3 THEN n ELSE 3
           /\ Cardinality(ids) = Len(out)
           /\ ids \subseteq DOMAIN db
           /\ \A i \in DOMAIN out : out[i].score = RepoScore(out[i].id)
           /\ \A i, j \in DOMAIN out : i < j => out[i].score >= out[j].score
           /\ \A t \in DOMAIN db \ ids :
                \A i \in DOMAIN out : RepoScore(t) <= out[i].score

\* four rows, of which the first scores lowest: it was left out, and the
\* three returned are not all of one score
C14_Witness ==
    /\ Suggested
    /\ Cardinality(DOMAIN db) = 4
    /\ Len(resp.detail) = 3
    /\ \A i \in DOMAIN resp.detail : resp.detail[i].id # 1
    /\ RepoScore(1) < resp.detail[3].score
    /\ resp.detail[3].score < resp.detail[1].score

(***************************************************************************)
(* Monotonicity of calculate_score under the default weights               *)
(***************************************************************************)
Compared == calcOut.kind = "compared"

\* C15: all else and the context being equal, under default weights, a
\* task due sooner has an urgency sub-score and a score at least as high, a
\* task of higher importance has an importance sub-score at least as high
\* and a strictly higher score, and a task of more hours has an effort
\* sub-score and a score at most as high.
C15_Monotone ==
    Compared =>
        LET low == calcIn.all_tasks[calcIn.k]
            high == calcIn.raised[calcIn.k]
        IN /\ high.due_date > low.due_date =>
                /\ calcOut.low.urgency >= calcOut.high.urgency
                /\ calcOut.low.score >= calcOut.high.score
           /\ high.importance > low.importance =>
                /\ calcOut.high.importance >= calcOut.low.importance
                /\ calcOut.high.score > calcOut.low.score
           /\ high.estimated_hours > low.estimated_hours =>
                /\ calcOut.high.effort <= calcOut.low.effort
                /\ calcOut.high.score <= calcOut.low.score

\* a task with a dependency and a dependent was scored at 16 and at 17
\* hours, and the score fell
C15_Witness ==
    /\ Compared
    /\ calcIn.k = 2
    /\ calcIn.all_tasks[2].estimated_hours = 16
    /\ calcIn.raised[2].estimated_hours = 17
    /\ calcOut.high.score < calcOut.low.score
    /\ calcOut.low.dependency = 100

(***************************************************************************)
(* validate_tasks and missing dependencies                                 *)
(***************************************************************************)
\* node -> target is an edge of the task list whose target is neither in
\* the list nor in the repository
IsMissingEdge(in, node, target) ==
    \E i \in DOMAIN in.tasks :
        /\ in.tasks[i].id = node
        /\ target \in Range(in.tasks[i].dependencies)
        /\ target \notin TaskIdSet(in.tasks) \cup in.dbIds

\* C16: whenever some dependency edge of the task set has a target absent
\* from the set and from the repository, validate_tasks fails with the
\* missing-dependency error, naming the source and the target of such an
\* edge, whatever the other edges and the order of the tasks.
C16_MissingAlwaysReported ==
    (valOut.kind # "idle" /\ ~AllTargetsExist(valIn)) =>
        /\ valOut.kind = "missing"
        /\ IsMissingEdge(valIn, valOut.task_id, valOut.missing_id)

(***************************************************************************)
(* The persisted dependency graph                                          *)
(***************************************************************************)
\* C17: after any sequence of create_task, delete_task and analyze_tasks
\* calls on a repository that starts empty, no row depends on itself and
\* the dependency graph of the rows has no directed cycle.
C17_PersistedAcyclic ==
    /\ \A t \in DOMAIN db : t \notin Range(db[t].dependencies)
    /\ ~HasDirectedCycle(DbGraph(db))

\* three rows were created, one was deleted, the other two were analyzed,
\* and one of them depends on the other
C17_Witness ==
    /\ nextId = 4
    /\ Cardinality(DOMAIN db) = 2
    /\ \A t \in DOMAIN db : db[t].score # None
    /\ \E t, u \in DOMAIN db : u \in Range(db[t].dependencies)

(***************************************************************************)
(* analyze_tasks against concurrent requests                               *)
(***************************************************************************)
\* C18: the score and the explanation analyze_tasks commits for a row are
\* those the calculator yields on the rows of the repository as they are
\* at the commit, also when create_task ran since the rows were read.
C18_CommitsCurrentScores ==
    [][(/\ pending.kind = "read"
        /\ pending'.kind = "idle"
        /\ resp'.status = 200
        /\ pending.request.tasks = <<>>) =>
        \A i \in DOMAIN pending.db_tasks :
            LET t == pending.db_tasks[i].id
                weights == CalculatorWeights(pending.request.weights)
            IN t \in DOMAIN db' =>
                /\ db'[t].score = calculate_score(weights, db'[t], db').score
                /\ db'[t].explanation = generate_explanation(db'[t], db')]_vars

====
